---- MODULE Spec2Model ----
(***************************************************************************)
(* Model of the merge_match_arms assist                                    *)
(* (crates/ra_assists/src/assists/merge_match_arms.rs).                    *)
(*                                                                         *)
(* A text is a sequence of one-character strings, an offset counts          *)
(* characters from 0, and a range <<s, e>> covers the offsets s .. e-1.     *)
(* The syntax tree is the list of the arms of one match expression; the    *)
(* file text is rendered from it, so every arm has the range the parser    *)
(* would give it.  The assist is a pure function of (tree, cursor); the    *)
(* state machine draws the input in Init, runs the assist in one step and  *)
(* lets the caller apply the edit in a second step.                        *)
(***************************************************************************)
EXTENDS Integers, Sequences, FiniteSets, TLC

VARIABLES arms, frange, pc, arms_to_merge, assist, file, cursor

vars == <<arms, frange, pc, arms_to_merge, assist, file, cursor>>

\* ------------------------------------------------------------------ bounds
\* Largest number of arms in the match expression.
MaxArms == 3

\* ------------------------------------------------------------- text helpers
\* Option::None for a text-valued field (a guard or a body that is absent).
None == <<>>

\* Option::None of add_assist / an arm index that does not exist.
NoArm == 0

RECURSIVE join(_, _)
\* [String]::join: the texts of ts with sep between neighbours.
join(ts, sep) ==
    IF Len(ts) = 0 THEN <<>>
    ELSE IF Len(ts) = 1 THEN ts[1]
    ELSE ts[1] \o sep \o join(Tail(ts), sep)

\* Offsets are 0-based: the characters of t in the range <<s, e>>.
Slice(t, s, e) == SubSeq(t, s + 1, e)

\* ------------------------------------------------------------ the syntax tree
\* The arms the match expression is built from.  Patterns are A, B and the
\* placeholder _; bodies are -1 and - 1 (equal up to whitespace); an arm may
\* carry a guard, may lack its body, and may be written without blanks.
ArmShapes ==
    { [pats |-> <<<<"A">>>>,          guard |-> None,                expr |-> <<"-", "1">>,      tight |-> FALSE],
      [pats |-> <<<<"_">>>>,          guard |-> None,                expr |-> <<"-", "1">>,      tight |-> FALSE],
      [pats |-> <<<<"A">>, <<"B">>>>, guard |-> None,                expr |-> <<"-", "1">>,      tight |-> FALSE],
      [pats |-> <<<<"B">>, <<"_">>>>, guard |-> None,                expr |-> <<"-", "1">>,      tight |-> FALSE],
      [pats |-> <<<<"B">>, <<"A">>>>, guard |-> None,                expr |-> <<"-", "1">>,      tight |-> TRUE],
      [pats |-> <<<<"A">>>>,          guard |-> <<"i","f"," ","g">>, expr |-> <<"-", "1">>,      tight |-> FALSE],
      [pats |-> <<<<"B">>>>,          guard |-> None,                expr |-> <<"-", " ", "1">>, tight |-> FALSE],
      [pats |-> <<<<"A">>>>,          guard |-> None,                expr |-> None,              tight |-> FALSE] }

\* The source text of one arm: patterns separated by |, the guard, the
\* arrow and the body.  The arm's node ends with its body; the comma that
\* separates two arms is a sibling of the arms, not part of either.
ArmText(a) ==
    LET ws  == IF a.tight THEN <<>> ELSE <<" ">>
        sep == ws \o <<"|">> \o ws
    IN  join(a.pats, sep)
        \o (IF a.guard # None THEN <<" ">> \o a.guard ELSE <<>>)
        \o ws \o <<"=", ">">>
        \o (IF a.expr # None THEN ws \o a.expr ELSE <<>>)

RECURSIVE ArmListText(_)
\* The arms of a match arm list with ", " between neighbours.
ArmListText(as) ==
    IF Len(as) = 0 THEN <<>>
    ELSE IF Len(as) = 1 THEN ArmText(as[1])
    ELSE ArmText(as[1]) \o <<",", " ">> \o ArmListText(Tail(as))

\* The text of the whole file: the arm list between braces.
FileText(as) == <<"{">> \o ArmListText(as) \o <<"}">>

RECURSIVE ArmStart(_, _)
\* arm.syntax().text_range().start() of the i-th arm: the first arm follows
\* the opening brace, every other arm the ", " after the arm before it.
ArmStart(as, i) ==
    IF i = 1 THEN 1 ELSE ArmStart(as, i - 1) + Len(ArmText(as[i - 1])) + 2

\* arm.syntax().text_range().end() of the i-th arm.
ArmEnd(as, i) == ArmStart(as, i) + Len(ArmText(as[i]))

\* arm.expr().syntax().text_range().start(): the body is the arm's last child.
ExprStart(as, i) == ArmEnd(as, i) - Len(as[i].expr)

\* TextRange::contains: the range is half-open.
contains(s, e, offset) == s <= offset /\ offset < e

RECURSIVE arm_at_offset(_, _, _, _)
\* The arm, among arm i (which starts at start) and its next siblings, whose
\* range holds the offset; an offset touching either edge of an arm's range
\* is held by it.  NoArm when there is none.
arm_at_offset(as, i, start, offset) ==
    IF i > Len(as) THEN NoArm
    ELSE LET end == start + Len(ArmText(as[i]))
         IN  IF start <= offset /\ offset <= end THEN i
             ELSE arm_at_offset(as, i + 1, end + 2, offset)

\* ctx.find_node_at_offset::<ast::MatchArm>(): the arm whose range holds the
\* offset.
find_node_at_offset(as, offset) == arm_at_offset(as, 1, 1, offset)

\* next_arm: the next MatchArm sibling, if there is one.
next_arm(as, i) == IF i < Len(as) THEN i + 1 ELSE NoArm

\* The text with its blanks removed.
strip_ws(t) == SelectSeq(t, LAMBDA c : c # " ")

\* Faulty closure: bodies are compared up to whitespace.
keep_up_to_whitespace(arm, current_expr_text) ==
    IF arm.guard # None THEN FALSE
    ELSE IF arm.expr # None THEN strip_ws(arm.expr) = strip_ws(current_expr_text)
    ELSE FALSE

\* Faulty closure: the guard of a later arm is not looked at.
keep_ignoring_guard(arm, current_expr_text) ==
    IF arm.expr # None THEN arm.expr = current_expr_text
    ELSE FALSE

\* ------------------------------------------------------------- the assist
\* The closure of take_while (lines 58-66): an arm stays in the run when it
\* has no guard and has a body whose text equals the current arm's body text.
keep(arm, current_expr_text) ==
    IF arm.guard # None THEN FALSE
    ELSE IF arm.expr # None THEN arm.expr = current_expr_text
    ELSE FALSE

RECURSIVE take_while(_, _, _)
\* successors(Some(current_arm), next_arm).take_while(..).collect(): the
\* indices of the arms from i on, up to the first one the closure rejects.
take_while(as, i, current_expr_text) ==
    IF i = NoArm THEN <<>>
    ELSE IF keep(as[i], current_expr_text)
         THEN <<i>> \o take_while(as, next_arm(as, i), current_expr_text)
         ELSE <<>>

\* Faulty length test: a run of one arm is let through.
too_few_off_by_one(run) == Len(run) < 1

\* if arms_to_merge.len() <= 1 { return None; }
too_few(run) == Len(run) <= 1

\* Faulty placeholder test: only the first pattern of the arm is looked at.
contains_placeholder_first_only(a) == a.pats[1] = <<"_">>

\* contains_placeholder: some pattern of the arm is a PlaceholderPat.
contains_placeholder(a) == \E j \in 1..Len(a.pats) : a.pats[j] = <<"_">>

RECURSIVE flat_map_pats(_, _)
\* arms_to_merge.iter().flat_map(ast::MatchArm::pats).map(to_string)
flat_map_pats(as, run) ==
    IF Len(run) = 0 THEN <<>>
    ELSE as[Head(run)].pats \o flat_map_pats(as, Tail(run))

\* Faulty merge: the patterns are joined without the blanks around |.
pats_joined_tight(as, run) ==
    IF \E r \in 1..Len(run) : contains_placeholder(as[run[r]])
    THEN <<"_">>
    ELSE join(flat_map_pats(as, run), <<"|">>)

\* Faulty merge: only the patterns of the first arm of the run are kept.
pats_of_first_arm(as, run) ==
    IF \E r \in 1..Len(run) : contains_placeholder(as[run[r]])
    THEN <<"_">>
    ELSE join(as[run[1]].pats, <<" ", "|", " ">>)

\* let pats = if any(contains_placeholder) { "_" } else { ...join(" | ") }
pats(as, run) ==
    IF \E r \in 1..Len(run) : contains_placeholder(as[run[r]])
    THEN <<"_">>
    ELSE join(flat_map_pats(as, run), <<" ", "|", " ">>)

\* let arm = format!("{} => {}", pats, current_expr.syntax().text());
arm_text(as, run, current_arm) ==
    pats(as, run) \o <<" ", "=", ">", " ">> \o as[current_arm].expr

\* let start = arms_to_merge.first().unwrap().syntax().text_range().start();
replace_start(as, run) == ArmStart(as, run[1])

\* Faulty end: the end of the first arm of the run.
replace_end_of_first(as, run) == ArmEnd(as, run[1])

\* let end = arms_to_merge.last().unwrap().syntax().text_range().end();
replace_end(as, run) == ArmEnd(as, run[Len(run)])

\* The classification of the cursor (lines 44-53): InExpr carries the
\* distance from the end of the current arm, InPat the offset itself.
cursor_pos(as, current_arm, offset) ==
    IF contains(ExprStart(as, current_arm), ArmEnd(as, current_arm), offset)
    THEN [kind |-> "InExpr", unit |-> ArmEnd(as, current_arm) - offset]
    ELSE [kind |-> "InPat", unit |-> offset]

\* Faulty cursor: the offset is kept in both modes.
new_cursor_kept(as, run, current_arm, offset) == offset

\* The argument of edit.set_cursor (lines 91-94).
new_cursor(as, run, current_arm, offset) ==
    LET cp == cursor_pos(as, current_arm, offset)
    IN  IF cp.kind = "InExpr"
        THEN replace_start(as, run) + Len(arm_text(as, run, current_arm)) - cp.unit
        ELSE cp.unit

\* The closure handed to ctx.add_assist (lines 73-96): the edit it builds.
build_edit(as, run, current_arm, offset) ==
    [ id       |-> "merge_match_arms",
      label    |-> "Merge match arms",
      target   |-> <<ArmStart(as, current_arm), ArmEnd(as, current_arm)>>,
      cursor_position |-> <<new_cursor(as, run, current_arm, offset)>>,
      replaces |-> << [from |-> replace_start(as, run),
                       to   |-> replace_end(as, run),
                       text |-> arm_text(as, run, current_arm)] >> ]

\* ------------------------------------------------------------ state machine
\* All inputs: a match of 1 .. MaxArms arms and a cursor anywhere in the file.
Init ==
    /\ arms \in UNION { [1..n -> ArmShapes] : n \in 1..MaxArms }
    /\ file = FileText(arms)
    /\ frange \in 0..Len(file)
    /\ cursor = frange
    /\ pc = "ready"
    /\ arms_to_merge = <<>>
    /\ assist = <<>>

\* fn merge_match_arms(ctx) -> Option<Assist>   (lines 35-97)
merge_match_arms ==
    /\ pc = "ready"
    /\ pc' = "returned"
    /\ LET current_arm == find_node_at_offset(arms, frange)
       IN  IF current_arm = NoArm
           THEN arms_to_merge' = <<>> /\ assist' = <<>>
           ELSE IF arms[current_arm].guard # None
           THEN arms_to_merge' = <<>> /\ assist' = <<>>
           ELSE IF arms[current_arm].expr = None
           THEN arms_to_merge' = <<>> /\ assist' = <<>>
           ELSE LET run == take_while(arms, current_arm, arms[current_arm].expr)
                IN  /\ arms_to_merge' = run
                    /\ assist' = IF too_few(run) THEN <<>>
                                 ELSE <<build_edit(arms, run, current_arm, frange)>>
    /\ UNCHANGED <<arms, frange, file, cursor>>

RECURSIVE apply_replaces(_, _)
\* Applying the replacements of an edit to a text, last one first.
apply_replaces(text, rs) ==
    IF Len(rs) = 0 THEN text
    ELSE LET r == rs[Len(rs)]
             t == Slice(text, 0, r.from) \o r.text \o Slice(text, r.to, Len(text))
         IN  apply_replaces(t, SubSeq(rs, 1, Len(rs) - 1))

\* The caller applies the assist it was offered: the replacement is made in
\* the file and the cursor moves to the edit's cursor position.
ApplyEdit ==
    /\ pc = "returned"
    /\ assist # <<>>
    /\ pc' = "applied"
    /\ file' = apply_replaces(file, assist[1].replaces)
    /\ cursor' = IF Len(assist[1].cursor_position) = 1
                 THEN assist[1].cursor_position[1] ELSE cursor
    /\ UNCHANGED <<arms, frange, arms_to_merge, assist>>

Next == merge_match_arms \/ ApplyEdit

Spec == Init /\ [][Next]_vars

\* ------------------------------------------------------- vocabulary of the
\* properties, stated on the tree and the file text, not on the assist's code
\* The arm the cursor is in (NoArm when it is in none).
Anchor == find_node_at_offset(arms, frange)

\* Arm k exists, has no guard and has a body: it can be the anchor of a run.
AnchorOk(k) == k # NoArm /\ arms[k].guard = None /\ arms[k].expr # None

\* Arm i may be merged with the anchor k.
Mergeable(k, i) ==
    /\ arms[i].guard = None
    /\ arms[i].expr # None
    /\ arms[i].expr = arms[k].expr

\* The assist has run and returned an edit.
Offered == pc # "ready" /\ assist # <<>>

\* The file as it was before the edit.
Orig == FileText(arms)

\* The single replacement of the offered edit.
Repl == assist[1].replaces[1]

\* The cursor was inside the body of the anchor k.
InBody(k) == contains(ExprStart(arms, k), ArmEnd(arms, k), frange)

\* Some arm of the run has a placeholder among its patterns.
RunHasPlaceholder ==
    \E r \in 1..Len(arms_to_merge) :
        \E j \in 1..Len(arms[arms_to_merge[r]].pats) :
            arms[arms_to_merge[r]].pats[j] = <<"_">>

\* The first position at which sep occurs in t, 0 when it does not occur.
FirstAt(t, sep) ==
    LET At == { i \in 1..(Len(t) - Len(sep) + 1) : SubSeq(t, i, i + Len(sep) - 1) = sep }
    IN  IF At = {} THEN 0 ELSE CHOOSE i \in At : \A k \in At : i <= k

RECURSIVE SplitOn(_, _)
\* The pieces of t between the occurrences of sep.
SplitOn(t, sep) ==
    LET i == FirstAt(t, sep)
    IN  IF i = 0 THEN <<t>>
        ELSE <<SubSeq(t, 1, i - 1)>> \o SplitOn(SubSeq(t, i + Len(sep), Len(t)), sep)

\* The pattern part of a merged arm text: what precedes its " => ".
PatternPart(t) == SubSeq(t, 1, FirstAt(t, <<" ", "=", ">", " ">>) - 1)

\* The body part of a merged arm text: what follows its " => ".
BodyPart(t) == SubSeq(t, FirstAt(t, <<" ", "=", ">", " ">>) + 4, Len(t))

RECURSIVE PatsBefore(_)
\* The number of patterns held by the first r arms of the run.
PatsBefore(r) ==
    IF r = 0 THEN 0 ELSE PatsBefore(r - 1) + Len(arms[arms_to_merge[r]].pats)

\* The number of arms in a text: every arm has exactly one arrow.
CountArms(t) == Cardinality({ i \in 1..(Len(t) - 1) : t[i] = "=" /\ t[i + 1] = ">" })

\* The values of the matched enum, and the values a pattern matches: the
\* placeholder matches every value, a path pattern its own variant.
AllValues == { <<"A">>, <<"B">>, <<"C">> }
Matches(p) == IF p = <<"_">> THEN AllValues ELSE {p}

\* The values matched by an alternation of patterns.
Coverage(ps) == UNION { Matches(ps[j]) : j \in 1..Len(ps) }

\* ------------------------------------------------------------------ claims
\* C1: the run is the longest contiguous stretch of arms starting at the
\* anchor in which every arm has no guard, has a body and has body text
\* equal, character for character, to the anchor's: the arm right after the
\* run (if any) fails one of the three, and an arm whose body equals the
\* anchor's only up to whitespace is never in the run.
C1_RunIsLongestPrefix ==
    LET k == Anchor IN
        (pc # "ready" /\ AnchorOk(k)) =>
            LET n == Len(arms_to_merge)
            IN  /\ n >= 1
                /\ \A r \in 1..n : arms_to_merge[r] = k + r - 1
                /\ \A r \in 1..n : Mergeable(k, arms_to_merge[r])
                /\ (k + n <= Len(arms) => ~Mergeable(k, k + n))
                /\ \A i \in 1..Len(arms) :
                       (/\ arms[i].expr # arms[k].expr
                        /\ strip_ws(arms[i].expr) = strip_ws(arms[k].expr))
                       => \A r \in 1..n : arms_to_merge[r] # i

\* A run of two arms was collected and stopped at an unguarded arm whose body
\* differs from the anchor's in whitespace only.
C1_Witness ==
    LET k == Anchor IN
        /\ pc = "returned"
        /\ AnchorOk(k)
        /\ Len(arms_to_merge) = 2
        /\ k + 2 <= Len(arms)
        /\ arms[k + 2].guard = None
        /\ arms[k + 2].expr # None
        /\ arms[k + 2].expr # arms[k].expr
        /\ strip_ws(arms[k + 2].expr) = strip_ws(arms[k].expr)

\* C2: an arm with a guard is never merged: a guarded anchor gives no edit,
\* no run member has a guard, and a guarded arm after the anchor ends the
\* run: neither it nor any later arm is in the run or in the replaced range.
C2_GuardedArmNeverMerged ==
    LET k == Anchor IN
        pc # "ready" =>
            /\ (k # NoArm /\ arms[k].guard # None
                   => assist = <<>> /\ arms_to_merge = <<>>)
            /\ \A r \in 1..Len(arms_to_merge) : arms[arms_to_merge[r]].guard = None
            /\ \A g \in 1..Len(arms) :
                   (k # NoArm /\ g > k /\ arms[g].guard # None) =>
                       \A j \in g..Len(arms) :
                           /\ \A r \in 1..Len(arms_to_merge) : arms_to_merge[r] # j
                           /\ assist # <<>> => Repl.to <= ArmStart(arms, j)
            /\ \A g \in 1..Len(arms) :
                   (assist # <<>> /\ arms[g].guard # None) =>
                       (Repl.to <= ArmStart(arms, g) \/ ArmEnd(arms, g) <= Repl.from)

\* Two arms were merged and the arm right after them has a guard and the
\* same body text as the anchor.
C2_Witness ==
    LET k == Anchor IN
        /\ pc = "applied"
        /\ Len(arms_to_merge) = 2
        /\ k + 2 <= Len(arms)
        /\ arms[k + 2].guard # None
        /\ arms[k + 2].expr = arms[k].expr

\* C3: the assist returns nothing exactly when the cursor is in no arm, the
\* anchor has a guard, the anchor has no body, or fewer than two arms can be
\* collected (there is no next arm, or the next arm has a guard, has no body
\* or has another body text); otherwise it returns one edit holding exactly
\* one replacement and one cursor offset.
C3_NotApplicableExactlyWhen ==
    LET k == Anchor IN
        pc # "ready" =>
            /\ assist = <<>> <=>
                   \/ k = NoArm
                   \/ arms[k].guard # None
                   \/ arms[k].expr = None
                   \/ k = Len(arms)
                   \/ ~Mergeable(k, k + 1)
            /\ assist = <<>> <=> (k = NoArm \/ ~AnchorOk(k) \/ Len(arms_to_merge) < 2)
            /\ assist # <<>> =>
                   /\ Len(assist) = 1
                   /\ Len(assist[1].replaces) = 1
                   /\ Len(assist[1].cursor_position) = 1
                   /\ Repl.from <= Repl.to
                   /\ Repl.to <= Len(Orig)

\* The anchor is fine and has a next arm, yet the run has one member only and
\* nothing is returned.
C3_Witness ==
    LET k == Anchor IN
        /\ pc = "returned"
        /\ AnchorOk(k)
        /\ k < Len(arms)
        /\ Len(arms_to_merge) = 1
        /\ assist = <<>>

\* C4: when some arm of the run has a placeholder among its patterns, the
\* merged pattern text is _ alone: the merged arm is "_ => " and the body.
C4_PlaceholderCollapse ==
    LET k == Anchor IN
        (Offered /\ RunHasPlaceholder) =>
            /\ Repl.text = <<"_", " ", "=", ">", " ">> \o arms[k].expr
            /\ PatternPart(Repl.text) = <<"_">>

\* The placeholder is the second pattern of the last of three merged arms,
\* and the anchor has two patterns, neither a placeholder.
C4_Witness ==
    LET k == Anchor IN
        /\ Offered
        /\ Len(arms_to_merge) = 3
        /\ arms[k].pats = << <<"A">>, <<"B">> >>
        /\ arms[k + 1].pats = << <<"A">> >>
        /\ arms[k + 2].pats = << <<"B">>, <<"_">> >>

\* C5: without a placeholder in the run, the merged arm text is the patterns
\* of the run's arms, in run order and in each arm's own order, each as
\* written, with " | " between them, then " => ", then the anchor's body.
C5_PatternsJoinedInOrder ==
    LET k == Anchor IN
        (Offered /\ ~RunHasPlaceholder) =>
            LET t  == Repl.text
                ps == SplitOn(PatternPart(t), <<" ", "|", " ">>)
            IN  /\ FirstAt(t, <<" ", "=", ">", " ">>) > 0
                /\ BodyPart(t) = arms[k].expr
                /\ Len(ps) = PatsBefore(Len(arms_to_merge))
                /\ \A r \in 1..Len(arms_to_merge) :
                       \A j \in 1..Len(arms[arms_to_merge[r]].pats) :
                           ps[PatsBefore(r - 1) + j] = arms[arms_to_merge[r]].pats[j]
                /\ Len(t) = Len(ps) + 3 * (Len(ps) - 1) + 4 + Len(arms[k].expr)

\* Two arms with two patterns each were merged, the second written without
\* blanks, so that the merged text is not a copy of the source text.
C5_Witness ==
    LET k == Anchor IN
        /\ Offered
        /\ ~RunHasPlaceholder
        /\ Len(arms_to_merge) = 2
        /\ arms[k].pats = << <<"A">>, <<"B">> >>
        /\ arms[k + 1].pats = << <<"B">>, <<"A">> >>
        /\ arms[k + 1].tight

\* C6: the one replacement covers the range from the anchor's start to the
\* end of the last run member; an arm before the anchor is never in the run;
\* once applied, the text before the anchor's start and the text after the
\* last run member's end are the original ones.
C6_ForwardOnlyFrame ==
    LET k == Anchor IN
        Offered =>
            LET last == arms_to_merge[Len(arms_to_merge)]
                tail == Len(Orig) - ArmEnd(arms, last)
            IN  /\ Repl.from = ArmStart(arms, k)
                /\ Repl.to = ArmEnd(arms, last)
                /\ \A r \in 1..Len(arms_to_merge) : arms_to_merge[r] >= k
                /\ pc = "applied" =>
                       /\ Len(file) = Repl.from + Len(Repl.text) + tail
                       /\ Slice(file, 0, Repl.from) = Slice(Orig, 0, Repl.from)
                       /\ Slice(file, Len(file) - tail, Len(file))
                              = Slice(Orig, ArmEnd(arms, last), Len(Orig))
                       /\ Slice(file, Repl.from, Repl.from + Len(Repl.text)) = Repl.text

\* The edit was applied and the arm before the anchor has no guard and the
\* anchor's body text.
C6_Witness ==
    LET k == Anchor IN
        /\ pc = "applied"
        /\ k > 1
        /\ Mergeable(k, k - 1)

\* C7: with the cursor inside the anchor's body, the new cursor offset is
\* run start + length of the merged arm - (end of the anchor - cursor); once
\* applied, the cursor is as far from the end of the merged arm's body as it
\* was from the end of the anchor's body, with the same body text on either
\* side of it.
C7_BodyCursorKeepsPlace ==
    LET k == Anchor IN
        (Offered /\ InBody(k)) =>
            LET back   == ArmEnd(arms, k) - frange
                into   == frange - ExprStart(arms, k)
                newEnd == Repl.from + Len(Repl.text)
            IN  /\ assist[1].cursor_position[1] = Repl.from + Len(Repl.text) - back
                /\ pc = "applied" =>
                       /\ cursor = Repl.from + Len(Repl.text) - back
                       /\ newEnd - cursor = back
                       /\ Slice(file, cursor, newEnd) = Slice(Orig, frange, ArmEnd(arms, k))
                       /\ Slice(file, cursor - into, cursor)
                              = Slice(Orig, ExprStart(arms, k), frange)
                       /\ Slice(file, cursor - into, newEnd) = arms[k].expr

\* The edit was applied with the cursor strictly inside the body, and the
\* cursor moved.
C7_Witness ==
    LET k == Anchor IN
        /\ pc = "applied"
        /\ InBody(k)
        /\ frange > ExprStart(arms, k)
        /\ cursor # frange

\* C8: with the cursor in the anchor but not in its body, the new cursor
\* offset is the original offset and the text before the cursor is untouched:
\* the result text up to the cursor is the original text up to it.
C8_PatternCursorTextUntouched ==
    LET k == Anchor IN
        (pc = "applied" /\ ~InBody(k)) =>
            /\ cursor = frange
            /\ cursor <= Len(file)
            /\ Slice(file, 0, cursor) = Slice(Orig, 0, frange)

\* C9: merging a run of N arms leaves N-1 arms fewer in the match, and the
\* merged arm's patterns match exactly the values matched by the patterns of
\* the run's arms.
C9_ArmCountAndCoverage ==
    pc = "applied" =>
        LET n      == Len(arms_to_merge)
            merged == SplitOn(PatternPart(Repl.text), <<" ", "|", " ">>)
        IN  /\ n >= 2
            /\ CountArms(Orig) = Len(arms)
            /\ CountArms(file) = Len(arms) - (n - 1)
            /\ Coverage(merged)
                   = UNION { Coverage(arms[arms_to_merge[r]].pats) : r \in 1..n }

\* Three arms were merged into one; the anchor alone matches fewer values
\* than the run, and no placeholder is involved.
C9_Witness ==
    LET k == Anchor IN
        /\ pc = "applied"
        /\ Len(arms_to_merge) = 3
        /\ ~RunHasPlaceholder
        /\ Coverage(arms[k].pats) # Coverage(arms[k + 1].pats)
        /\ CountArms(file) = 1

\* C10: the new cursor offset of every edit lies in the merged arm: it is at
\* least the run start and at most run start + length of the merged arm, and
\* for a cursor in the body the distance from the anchor's end is at most
\* the length of the merged arm.
C10_CursorInsideMergedArm ==
    LET k == Anchor IN
        Offered =>
            LET c == assist[1].cursor_position[1]
            IN  /\ Repl.from <= c
                /\ c <= Repl.from + Len(Repl.text)
                /\ InBody(k) => ArmEnd(arms, k) - frange <= Len(Repl.text)

====
